---- MODULE Spec2Model ----
(***************************************************************************)
(* A model of the BrainF REPL: the Parser (incremental tokenizer with      *)
(* bracket resolution), the Interpreter (dispatch loop over the global     *)
(* token list), the Brain (byte tape with cursor and output buffer) and    *)
(* the read-tokenize-evaluate loop of main.                                *)
(*                                                                         *)
(* Token targets and cursors are 0-based as in the source; TLA+ sequences  *)
(* are 1-based, so the token at source index k is tokens[k + 1].           *)
(***************************************************************************)
EXTENDS Integers, Sequences, FiniteSets, TLC

VARIABLES
    pc,           \* position of main: "read", "cont", "eval", "run", "exited", "panicked"; "tok" in the tokenizer harness
    parser,       \* struct Parser
    interpreter,  \* struct Interpreter, with its Brain
    stdin,        \* the console: scripted text still to be typed, and the budget of free characters
    stdout,       \* the sequence of strings printed by flush_output_buffer
    everErr,      \* history: some tokenize call of the session met an unbalanced ']'
    fragErr,      \* history: the latest tokenize call met an unbalanced ']'
    snap,         \* history: the interpreter as it was when the current fragment began
    calls,        \* history: the text given to tokenize since the current fragment began, and in how many non-empty pieces
    maxPtr,       \* history: highest Brain.ptr reached so far
    byteLine,     \* history: what read_byte returned to the latest Brain::input
    start,        \* harness: the parser before the first tokenize call
    callsOk,      \* harness: no tokenize call before the latest one met an unbalanced ']'
    fuel,         \* harness: the number of tokens the session may still dispatch
    replay        \* harness: the program and byte lines of a session typed twice, and what the first session left

vars == <<pc, parser, interpreter, stdin, stdout, everErr, fragErr, snap,
          calls, maxPtr, byteLine, start, callsOk, fuel, replay>>

----------------------------------------------------------------------------
(* Bounds *)

MaxChars == 4      \* characters typed at the prompts in a free session
MaxLineLen == 3    \* longest line typed at a prompt
MaxCells == 3      \* the run is stopped before the tape grows beyond this
MaxOut == 2        \* the run is stopped before the output buffer grows beyond this
MaxOffset == 1     \* largest prev_cursor the tokenizer harness starts from
MaxFed == 3        \* characters given to tokenize in the tokenizer harness
MaxProg == 4       \* longest program typed twice
MaxSteps == 9      \* tokens dispatched in a session before its run is stopped
MaxStepsA == 120   \* the same for the session in which ProgramA is typed

UsizeMax == 2147483647   \* stands for usize::MAX (the largest integer the model checker holds)
ByteMod == 256           \* u8 holds 0..255

----------------------------------------------------------------------------
(* Characters and tokens *)

InstrChars == {">", "<", "+", "-", ".", ",", "[", "]"}
QuitChar == "?"
Whitespace == {" "}

Token(op, arg) == [op |-> op, arg |-> arg]
PointerIncrement == Token("PointerIncrement", 0)
PointerDecrement == Token("PointerDecrement", 0)
DataIncrement == Token("DataIncrement", 0)
DataDecrement == Token("DataDecrement", 0)
Input == Token("Input", 0)
Output == Token("Output", 0)
JumpForward(i) == Token("JumpForward", i)
JumpBackward(i) == Token("JumpBackward", i)

\* the scalar value of a character, for the characters typed at the byte prompt
CharCode(c) ==
    CASE c = "A" -> 65
      [] c = " " -> 32
      [] c = "euro" -> 8364
      [] OTHER -> 63

\* n as u8
AsU8(n) == n % ByteMod

\* str::trim
RECURSIVE TrimStart(_)
TrimStart(s) ==
    IF s # <<>> /\ Head(s) \in Whitespace THEN TrimStart(Tail(s)) ELSE s

RECURSIVE TrimEnd(_)
TrimEnd(s) ==
    IF s # <<>> /\ s[Len(s)] \in Whitespace THEN TrimEnd(SubSeq(s, 1, Len(s) - 1)) ELSE s

\* read_input: the line typed at the prompt, trimmed
read_input(line) == TrimEnd(TrimStart(line))

----------------------------------------------------------------------------
(* Parser *)

NoCalls == [text |-> <<>>, n |-> 0]

ParserNew == [tokens |-> <<>>, match_stack |-> <<>>, cursor |-> 0, prev_cursor |-> 0]

push_token(p, token) ==
    [p EXCEPT !.tokens = Append(p.tokens, token), !.cursor = p.cursor + 1]

\* reset setting prev_cursor back to 0
reset_zero_offset(p) ==
    [p EXCEPT !.tokens = <<>>, !.match_stack = <<>>, !.prev_cursor = 0, !.cursor = 0]

reset(p) ==
    [p EXCEPT !.tokens = <<>>, !.match_stack = <<>>,
              !.prev_cursor = p.prev_cursor + p.cursor, !.cursor = 0]

\* error clearing the match stack only
error_keep_tokens(p) == [p EXCEPT !.match_stack = <<>>]

\* Parser::error prints the message and resets
error(p) == reset(p)

\* push_match with the closer's target left local (prev_cursor not added)
push_match_local(p, token) ==
    IF token.op = "JumpForward"
    THEN [p |-> push_token([p EXCEPT !.match_stack = Append(p.match_stack, p.cursor)],
                           JumpForward(0)),
          is_err |-> FALSE]
    ELSE IF p.match_stack = <<>>
         THEN [p |-> error(p), is_err |-> TRUE]
         ELSE LET i == p.match_stack[Len(p.match_stack)]
                  popped == [p EXCEPT !.match_stack = SubSeq(p.match_stack, 1, Len(p.match_stack) - 1)]
                  patched == [popped EXCEPT !.tokens[i + 1] = JumpForward(p.cursor + p.prev_cursor)]
              IN [p |-> push_token(patched, JumpBackward(i)),
                  is_err |-> FALSE]

\* the result is the parser and whether Err(()) was returned
push_match(p, token) ==
    IF token.op = "JumpForward"
    THEN [p |-> push_token([p EXCEPT !.match_stack = Append(p.match_stack, p.cursor)],
                           JumpForward(0)),
          is_err |-> FALSE]
    ELSE IF p.match_stack = <<>>
         THEN [p |-> error(p), is_err |-> TRUE]
         ELSE LET i == p.match_stack[Len(p.match_stack)]
                  popped == [p EXCEPT !.match_stack = SubSeq(p.match_stack, 1, Len(p.match_stack) - 1)]
                  patched == [popped EXCEPT !.tokens[i + 1] = JumpForward(p.cursor + p.prev_cursor)]
              IN [p |-> push_token(patched, JumpBackward(i + p.prev_cursor)),
                  is_err |-> FALSE]

\* the loop of tokenize from character k of input on; the result is the
\* parser, whether the unbalanced ']' was reported, and whether the process exited
RECURSIVE tokenize_from(_, _, _)
tokenize_from(p, input, k) ==
    IF k > Len(input)
    THEN [p |-> p, errored |-> FALSE, exited |-> FALSE]
    ELSE LET n == input[k] IN
         CASE n = ">" -> tokenize_from(push_token(p, PointerIncrement), input, k + 1)
           [] n = "<" -> tokenize_from(push_token(p, PointerDecrement), input, k + 1)
           [] n = "+" -> tokenize_from(push_token(p, DataIncrement), input, k + 1)
           [] n = "-" -> tokenize_from(push_token(p, DataDecrement), input, k + 1)
           [] n = "." -> tokenize_from(push_token(p, Output), input, k + 1)
           [] n = "," -> tokenize_from(push_token(p, Input), input, k + 1)
           [] n = "[" -> LET r == push_match(p, JumpForward(0)) IN
                         IF r.is_err
                         THEN [p |-> r.p, errored |-> TRUE, exited |-> FALSE]
                         ELSE tokenize_from(r.p, input, k + 1)
           [] n = "]" -> LET r == push_match(p, JumpBackward(0)) IN
                         IF r.is_err
                         THEN [p |-> r.p, errored |-> TRUE, exited |-> FALSE]
                         ELSE tokenize_from(r.p, input, k + 1)
           [] n = "?" -> [p |-> p, errored |-> FALSE, exited |-> TRUE]
           [] OTHER -> tokenize_from(p, input, k + 1)

\* tokenize advancing cursor for every character of the text
tokenize_count_chars(p, input) ==
    LET r == tokenize_from(p, input, 1) IN
    IF r.errored THEN r ELSE [r EXCEPT !.p.cursor = p.cursor + Len(input)]

\* tokenize counting positions from 0 in every call
tokenize_percall(p, input) == tokenize_from([p EXCEPT !.cursor = 0], input, 1)

tokenize(p, input) == tokenize_from(p, input, 1)

----------------------------------------------------------------------------
(* Brain *)

BrainNew == [cells |-> <<0>>, ptr |-> 0, output_buffer |-> <<>>]

\* flush_output_buffer without the clear
flush_output_buffer_no_clear(b) ==
    IF b.output_buffer # <<>>
    THEN [brain |-> b, printed |-> <<b.output_buffer>>]
    ELSE [brain |-> b, printed |-> <<>>]

\* the result is the brain and what println! wrote (<<>> when nothing was printed)
flush_output_buffer(b) ==
    IF b.output_buffer # <<>>
    THEN [brain |-> [b EXCEPT !.output_buffer = <<>>], printed |-> <<b.output_buffer>>]
    ELSE [brain |-> b, printed |-> <<>>]

add(b, n) ==
    [b EXCEPT !.cells[b.ptr + 1] = (b.cells[b.ptr + 1] + n) % ByteMod]

\* input overwriting the cell
input_overwrite(b, line) ==
    LET s == read_input(line) IN
    IF s # <<>> THEN [b EXCEPT !.cells[b.ptr + 1] = AsU8(CharCode(s[1]))] ELSE b

\* line is what was typed at the byte prompt
input(b, line) ==
    LET s == read_input(line) IN
    IF s # <<>> THEN add(b, AsU8(CharCode(s[1]))) ELSE b

output(b) ==
    [b EXCEPT !.output_buffer = Append(b.output_buffer, b.cells[b.ptr + 1])]

\* ptr_right growing the tape one cell early
ptr_right_eager(b) ==
    LET moved == [b EXCEPT !.ptr = b.ptr + 1] IN
    IF moved.ptr >= Len(moved.cells) - 1
    THEN [moved EXCEPT !.cells = Append(moved.cells, 0)]
    ELSE moved

ptr_right(b) ==
    LET moved == [b EXCEPT !.ptr = b.ptr + 1] IN
    IF moved.ptr > Len(moved.cells) - 1
    THEN [moved EXCEPT !.cells = Append(moved.cells, 0)]
    ELSE moved

\* ptr_left without the check for ptr = 0
ptr_left_unchecked(b) == [b EXCEPT !.ptr = b.ptr - 1]

ptr_left(b) ==
    IF b.ptr = 0 THEN b ELSE [b EXCEPT !.ptr = b.ptr - 1]

increment(b) == add(b, 1)

\* decrement stopping at 0
decrement_saturating(b) ==
    [b EXCEPT !.cells[b.ptr + 1] = IF b.cells[b.ptr + 1] = 0 THEN 0 ELSE b.cells[b.ptr + 1] - 1]

decrement(b) ==
    [b EXCEPT !.cells[b.ptr + 1] = (b.cells[b.ptr + 1] + ByteMod - 1) % ByteMod]

is_zero(b) == b.cells[b.ptr + 1] = 0

----------------------------------------------------------------------------
(* Interpreter *)

InterpreterNew == [brain |-> BrainNew, tokens |-> <<>>, cursor |-> 0]

\* take_tokens putting the new tokens in the place of the list
take_tokens_replace(it, tokens) == [it EXCEPT !.tokens = tokens]

take_tokens(it, tokens) == [it EXCEPT !.tokens = it.tokens \o tokens]

\* forward with the test inverted
forward_on_nonzero(it, i) ==
    IF ~is_zero(it.brain) THEN [it EXCEPT !.cursor = i] ELSE it

\* forward that never jumps
forward_never(it, i) == it

forward(it, i) ==
    IF is_zero(it.brain) THEN [it EXCEPT !.cursor = i] ELSE it

\* i - 1 on a usize: with i = 0 a build with overflow checks panics and a
\* build without them wraps; the result is the set of possible outcomes
backward(it, i) ==
    IF i >= 1
    THEN {[it |-> [it EXCEPT !.cursor = i - 1], panicked |-> FALSE]}
    ELSE {[it |-> it, panicked |-> TRUE],
          [it |-> [it EXCEPT !.cursor = UsizeMax], panicked |-> FALSE]}

\* the match of interpret's loop body on tokens[cursor]
dispatch(it, line) ==
    LET tok == it.tokens[it.cursor + 1]
        ok(b) == {[it |-> [it EXCEPT !.brain = b], panicked |-> FALSE]}
    IN CASE tok.op = "PointerIncrement" -> ok(ptr_right(it.brain))
         [] tok.op = "PointerDecrement" -> ok(ptr_left(it.brain))
         [] tok.op = "DataIncrement" -> ok(increment(it.brain))
         [] tok.op = "DataDecrement" -> ok(decrement(it.brain))
         [] tok.op = "Output" -> ok(output(it.brain))
         [] tok.op = "Input" -> ok(input(it.brain, line))
         [] tok.op = "JumpForward" -> {[it |-> forward(it, tok.arg), panicked |-> FALSE]}
         [] tok.op = "JumpBackward" -> backward(it, tok.arg)

\* one iteration of interpret's while loop: dispatch, then cursor += 1
\* (which wraps to 0 after a wrapped backward(0))
interpret_step(it, line) ==
    {IF o.panicked THEN o
     ELSE [o EXCEPT !.it.cursor = IF o.it.cursor = UsizeMax THEN 0 ELSE o.it.cursor + 1] :
        o \in dispatch(it, line)}

----------------------------------------------------------------------------
(* The console *)

Alphabet == InstrChars \cup {QuitChar} \cup Whitespace

Min(a, b) == IF a < b THEN a ELSE b

TextsUpTo(chars, n) == UNION {[1..k -> chars] : k \in 0..n}

\* the lines that can be typed at a program prompt
Lines(in) ==
    IF in.script # <<>>
    THEN {SubSeq(in.script, 1, k) : k \in 1..Len(in.script)}
    ELSE TextsUpTo(Alphabet, Min(MaxLineLen, in.budget))

Typed(in, line) ==
    IF in.script # <<>>
    THEN [in EXCEPT !.script = SubSeq(in.script, Len(line) + 1, Len(in.script))]
    ELSE [in EXCEPT !.budget = in.budget - Len(line)]

\* the lines that can be typed at the byte prompt (the empty one is also end of input)
ByteLines == {<<>>, <<"A">>, <<" ", "A">>, <<"euro">>}

\* the sequences of lines that are typed at the byte prompts of a session typed twice
ByteScripts == {<<>>, << <<"A">>, <<"euro">> >>}

\* no session is typed twice
NoReplay == [phase |-> 0]

\* the lines that can be read at the byte prompt: any in a free session, the
\* next scripted one (end of input once they are used up) in a session typed twice
InputLines ==
    IF replay.phase = 0 THEN ByteLines
    ELSE IF replay.left = <<>> THEN {<<>>}
    ELSE {Head(replay.left)}

\* the byte script after the read
LineRead ==
    IF replay.phase = 0 \/ replay.left = <<>> THEN replay
    ELSE [replay EXCEPT !.left = Tail(replay.left)]

\* the strings of a sequence, one after the other
RECURSIVE Concat(_)
Concat(ss) == IF ss = <<>> THEN <<>> ELSE Head(ss) \o Concat(Tail(ss))

\* the scripted text has all been typed and run
AllTyped == pc = "read" /\ stdin.script = <<>>

\* the history of calls after one more call
Called(cs, text) ==
    IF text = <<>> THEN cs ELSE [text |-> cs.text \o text, n |-> cs.n + 1]

----------------------------------------------------------------------------
(* main *)

Init ==
    /\ pc = "read"
    /\ parser = ParserNew
    /\ interpreter = InterpreterNew
    /\ stdin = [script |-> <<>>, budget |-> MaxChars]
    /\ stdout = <<>>
    /\ everErr = FALSE
    /\ fragErr = FALSE
    /\ snap = InterpreterNew
    /\ calls = NoCalls
    /\ maxPtr = 0
    /\ byteLine = <<>>
    /\ start = ParserNew
    /\ callsOk = TRUE
    /\ replay = NoReplay
    /\ fuel = MaxSteps

\* main going on after the quit character
AfterTokenize_no_exit(r) ==
    IF r.p.match_stack # <<>> THEN "cont" ELSE "eval"

\* main without the continuation loop
AfterTokenize_no_wait(r) ==
    IF r.exited THEN "exited" ELSE "eval"

\* where main goes after a tokenize call
AfterTokenize(r) ==
    IF r.exited THEN "exited"
    ELSE IF r.p.match_stack # <<>> THEN "cont" ELSE "eval"

\* input_buffer = Parser::read_std(); parser.tokenize(&input_buffer)
ReadStd ==
    /\ pc = "read"
    /\ \E line \in Lines(stdin) :
         LET r == tokenize(parser, read_input(line)) IN
         /\ parser' = r.p
         /\ pc' = AfterTokenize(r)
         /\ stdin' = Typed(stdin, line)
         /\ fragErr' = r.errored
         /\ everErr' = (everErr \/ r.errored)
         /\ calls' = Called(NoCalls, line)
    /\ snap' = interpreter
    /\ UNCHANGED <<interpreter, stdout, maxPtr, byteLine, start, callsOk, fuel, replay>>

\* the body of the while loop: input_buffer = Parser::read_cont(); parser.tokenize(&input_buffer)
ReadCont ==
    /\ pc = "cont"
    /\ \E line \in Lines(stdin) :
         LET r == tokenize(parser, read_input(line)) IN
         /\ parser' = r.p
         /\ pc' = AfterTokenize(r)
         /\ stdin' = Typed(stdin, line)
         /\ fragErr' = r.errored
         /\ everErr' = (everErr \/ r.errored)
         /\ calls' = Called(calls, line)
    /\ UNCHANGED <<interpreter, stdout, snap, maxPtr, byteLine, start, callsOk, fuel, replay>>

\* interpreter.take_tokens(mem::replace(&mut parser.tokens, Vec::new()))
TakeTokens ==
    /\ pc = "eval"
    /\ interpreter' = take_tokens(interpreter, parser.tokens)
    /\ parser' = [parser EXCEPT !.tokens = <<>>]
    /\ pc' = "run"
    /\ UNCHANGED <<stdin, stdout, everErr, fragErr, snap, calls, maxPtr, byteLine, start, callsOk, fuel, replay>>

\* the run is cut off where the tape or the output buffer would pass the
\* bounds, or the session has dispatched as many tokens as it may
WithinBounds(it) ==
    /\ Len(it.brain.cells) <= MaxCells
    /\ Len(it.brain.output_buffer) <= MaxOut

\* one iteration of the while loop of interpret
Step ==
    /\ pc = "run"
    /\ interpreter.cursor < Len(interpreter.tokens)
    /\ fuel > 0
    /\ fuel' = fuel - 1
    /\ \E line \in (IF interpreter.tokens[interpreter.cursor + 1].op = "Input"
                    THEN InputLines ELSE {<<>>}) :
         \E o \in interpret_step(interpreter, line) :
            /\ WithinBounds(o.it)
            /\ interpreter' = o.it
            /\ pc' = IF o.panicked THEN "panicked" ELSE "run"
            /\ maxPtr' = IF o.it.brain.ptr > maxPtr THEN o.it.brain.ptr ELSE maxPtr
            /\ byteLine' = IF interpreter.tokens[interpreter.cursor + 1].op = "Input"
                           THEN read_input(line) ELSE byteLine
    /\ replay' = IF interpreter.tokens[interpreter.cursor + 1].op = "Input"
                 THEN LineRead ELSE replay
    /\ UNCHANGED <<parser, stdin, stdout, everErr, fragErr, snap, calls, start, callsOk>>

\* the end of interpret, then parser.reset() and print_brain()
Finish ==
    /\ pc = "run"
    /\ ~(interpreter.cursor < Len(interpreter.tokens))
    /\ LET f == flush_output_buffer(interpreter.brain) IN
         /\ interpreter' = [interpreter EXCEPT !.brain = f.brain]
         /\ stdout' = stdout \o f.printed
    /\ parser' = reset(parser)
    /\ pc' = "read"
    /\ UNCHANGED <<stdin, everErr, fragErr, snap, calls, maxPtr, byteLine, start, callsOk, fuel, replay>>

Next == ReadStd \/ ReadCont \/ TakeTokens \/ Step \/ Finish

Spec == Init /\ [][Next]_vars

----------------------------------------------------------------------------
(* A session in which the text of one program is typed, cut into lines at  *)
(* any places                                                              *)

\* ++++++[>++++++++++<-]>+++++.
ProgramA ==
    <<"+", "+", "+", "+", "+", "+", "[", ">", "+", "+", "+", "+", "+",
    "+", "+", "+", "+", "+", "<", "-", "]", ">", "+", "+", "+", "+",
    "+", ".">>

InitA ==
    /\ pc = "read"
    /\ parser = ParserNew
    /\ interpreter = InterpreterNew
    /\ stdin = [script |-> ProgramA, budget |-> 0]
    /\ stdout = <<>>
    /\ everErr = FALSE
    /\ fragErr = FALSE
    /\ snap = InterpreterNew
    /\ calls = NoCalls
    /\ maxPtr = 0
    /\ byteLine = <<>>
    /\ start = ParserNew
    /\ callsOk = TRUE
    /\ replay = NoReplay
    /\ fuel = MaxStepsA

\* main is sequential: a step that can be taken is taken
SpecA == InitA /\ [][Next]_vars /\ WF_vars(Next)

----------------------------------------------------------------------------
(* A program typed twice with the same byte lines: first cut into lines at *)
(* any places, then as one line into a fresh session                       *)

\* the instruction characters of the programs typed twice
ProgChars == InstrChars \ {"<", "-"}

InitB ==
    /\ pc = "read"
    /\ parser = ParserNew
    /\ interpreter = InterpreterNew
    /\ \E program \in TextsUpTo(ProgChars, MaxProg) \ {<<>>} :
         /\ stdin = [script |-> program, budget |-> 0]
         /\ \E bytes \in ByteScripts :
              replay = [phase |-> 1, program |-> program, bytes |-> bytes, left |-> bytes,
                        first |-> [interpreter |-> InterpreterNew, split |-> FALSE,
                                   out |-> <<>>, err |-> FALSE]]
    /\ stdout = <<>>
    /\ everErr = FALSE
    /\ fragErr = FALSE
    /\ snap = InterpreterNew
    /\ calls = NoCalls
    /\ maxPtr = 0
    /\ byteLine = <<>>
    /\ start = ParserNew
    /\ callsOk = TRUE
    /\ fuel = MaxSteps

\* the first session is over: main starts again (Parser::new, Interpreter::new)
\* and reads the whole program as its first line
Restart ==
    /\ replay.phase = 1
    /\ AllTyped
    /\ replay' = [replay EXCEPT !.phase = 2, !.left = replay.bytes,
                                !.first = [interpreter |-> interpreter,
                                           split |-> Len(snap.tokens) \in
                                                       1..(Len(interpreter.tokens) - 1),
                                           out |-> Concat(stdout), err |-> everErr]]
    /\ LET r == tokenize(ParserNew, read_input(replay.program)) IN
         /\ parser' = r.p
         /\ pc' = AfterTokenize(r)
         /\ fragErr' = r.errored
         /\ everErr' = r.errored
         /\ calls' = Called(NoCalls, replay.program)
    /\ interpreter' = InterpreterNew
    /\ snap' = InterpreterNew
    /\ stdout' = <<>>
    /\ maxPtr' = 0
    /\ byteLine' = <<>>
    /\ fuel' = MaxSteps
    /\ UNCHANGED <<stdin, start, callsOk>>

NextB == Next \/ Restart

SpecB == InitB /\ [][NextB]_vars

----------------------------------------------------------------------------
(* A harness that calls Parser::tokenize on one parser with successive     *)
(* texts, none holding the quit character                                  *)

TokChars == InstrChars \cup {"x"}

InitTok ==
    /\ pc = "tok"
    /\ parser \in {[ParserNew EXCEPT !.prev_cursor = k] : k \in 0..MaxOffset}
    /\ start = parser
    /\ callsOk = TRUE
    /\ replay = NoReplay
    /\ fuel = 0
    /\ fragErr = FALSE
    /\ everErr = FALSE
    /\ interpreter = InterpreterNew
    /\ stdin = [script |-> <<>>, budget |-> MaxFed]
    /\ stdout = <<>>
    /\ snap = InterpreterNew
    /\ calls = NoCalls
    /\ maxPtr = 0
    /\ byteLine = <<>>

\* parser.tokenize(&text)
TokenizeCall ==
    /\ pc = "tok"
    /\ \E text \in TextsUpTo(TokChars, Min(MaxLineLen, stdin.budget)) :
         LET r == tokenize(parser, text) IN
         /\ parser' = r.p
         /\ calls' = Called(calls, text)
         /\ callsOk' = (callsOk /\ ~fragErr)
         /\ fragErr' = r.errored
         /\ everErr' = (everErr \/ r.errored)
         /\ stdin' = [stdin EXCEPT !.budget = stdin.budget - Len(text)]
    /\ UNCHANGED <<pc, interpreter, stdout, snap, maxPtr, byteLine, start, fuel, replay>>

NextTok == TokenizeCall

SpecTok == InitTok /\ [][NextTok]_vars

----------------------------------------------------------------------------
(* Bracket pairs of a token list, found by LIFO nesting of the kinds of    *)
(* the tokens alone (the targets are not looked at); indices are 0-based   *)

RECURSIVE PairsFrom(_, _, _)
PairsFrom(ts, k, open) ==
    IF k > Len(ts) THEN {}
    ELSE IF ts[k].op = "JumpForward"
         THEN PairsFrom(ts, k + 1, Append(open, k - 1))
    ELSE IF ts[k].op = "JumpBackward" /\ open # <<>>
         THEN {<<open[Len(open)], k - 1>>}
              \cup PairsFrom(ts, k + 1, SubSeq(open, 1, Len(open) - 1))
    ELSE PairsFrom(ts, k + 1, open)

Pairs(ts) == PairsFrom(ts, 1, <<>>)

CountOp(ts, op) == Cardinality({k \in 1..Len(ts) : ts[k].op = op})

\* every pair's opener carries the index of its closer and the other way round
Linked(ts) ==
    \A pr \in Pairs(ts) :
        /\ ts[pr[1] + 1] = JumpForward(pr[2])
        /\ ts[pr[2] + 1] = JumpBackward(pr[1])

----------------------------------------------------------------------------
(* Claims *)

\* C1: in a session in which no ']' met an empty match stack, the
\* interpreter's token list holds as many JumpForward as JumpBackward tokens,
\* and every bracket pair (by LIFO nesting) with opener at a and closer at b
\* is JumpForward(b) and JumpBackward(a); on one line or over continuation
\* lines, in the first fragment and in later ones.
C1_BalancedSessionLinked ==
    ~everErr =>
        /\ CountOp(interpreter.tokens, "JumpForward") = CountOp(interpreter.tokens, "JumpBackward")
        /\ Linked(interpreter.tokens)

\* a later fragment, typed over several lines, has put a bracket pair in the list
C1_Witness ==
    /\ ~everErr
    /\ pc = "run"
    /\ calls.n >= 2
    /\ Len(snap.tokens) > 0
    /\ \E pr \in Pairs(interpreter.tokens) : pr[1] >= Len(snap.tokens)

\* C2: also after an unbalanced-close error, every JumpForward and
\* JumpBackward in the interpreter's token list carries the index of its
\* matching partner in that list.
C2_LinkedAfterError == Linked(interpreter.tokens)

\* C3: calling tokenize on the pieces of a text, one call per piece, leaves
\* the parser (tokens with their targets, match stack, cursor, prev_cursor),
\* and the error report, as one call on the whole text from the same parser
\* does, provided no piece before the last met an unbalanced ']'.
C3_SplitEqualsWhole ==
    (pc = "tok" /\ callsOk) =>
        LET whole == tokenize(start, calls.text) IN
        /\ parser = whole.p
        /\ fragErr = whole.errored

\* "[+]" was given as "[", "+", "]" and the pair is resolved
C3_Witness ==
    /\ pc = "tok"
    /\ callsOk
    /\ calls = [text |-> <<"[", "+", "]">>, n |-> 3]
    /\ parser.match_stack = <<>>
    /\ Len(parser.tokens) = 3

----------------------------------------------------------------------------
(* What a text is tokenized to, kinds only *)

OpOfChar(c) ==
    CASE c = ">" -> "PointerIncrement"
      [] c = "<" -> "PointerDecrement"
      [] c = "+" -> "DataIncrement"
      [] c = "-" -> "DataDecrement"
      [] c = "." -> "Output"
      [] c = "," -> "Input"
      [] c = "[" -> "JumpForward"
      [] c = "]" -> "JumpBackward"

RECURSIVE OpsOfText(_)
OpsOfText(s) ==
    IF s = <<>> THEN <<>>
    ELSE IF Head(s) \in InstrChars
         THEN <<OpOfChar(Head(s))>> \o OpsOfText(Tail(s))
         ELSE OpsOfText(Tail(s))

OpsOfTokens(ts) == [k \in 1..Len(ts) |-> ts[k].op]

\* interpret is about to dispatch a token of kind op
AtOp(op) ==
    /\ pc = "run"
    /\ interpreter.cursor < Len(interpreter.tokens)
    /\ interpreter.tokens[interpreter.cursor + 1].op = op

InSession == pc \in {"read", "cont", "eval", "run", "exited", "panicked"}

----------------------------------------------------------------------------

\* C4: when a tokenize call meets ']' with the match stack empty, the
\* parser's tokens and match stack are empty afterwards, and through the
\* commit and the run that follow the interpreter (token list, cursor, tape)
\* stays as it was when the fragment began.
C4_ErrorCommitsNothing ==
    (InSession /\ fragErr) =>
        /\ parser.tokens = <<>>
        /\ parser.match_stack = <<>>
        /\ interpreter = snap

\* the error came on a continuation line of a fragment begun after tokens
\* had been committed, and the commit-and-run step is over
C4_Witness ==
    /\ pc = "read"
    /\ fragErr
    /\ calls.n >= 2
    /\ Len(snap.tokens) > 0


\* C5: typed into a fresh session, in any cut into lines, the program
\* ++++++[>++++++++++<-]>+++++. is run to its end, and then exactly one
\* character has been printed, its value is 65, the tape is [0, 65] and the
\* cursor is on cell 1.
C5_PrintsA ==
    /\ <>AllTyped
    /\ [](AllTyped =>
            /\ Concat(stdout) = <<65>>
            /\ interpreter.brain.cells = <<0, 65>>
            /\ interpreter.brain.ptr = 1)

C5_Witness ==
    /\ AllTyped
    /\ stdout = << <<65>> >>
    /\ interpreter.cursor = Len(ProgramA)

C7_CursorInRange ==
    InSession =>
        /\ interpreter.cursor <= Len(interpreter.tokens)
        /\ (pc = "read") => (interpreter.cursor = Len(interpreter.tokens))

\* C8: no run panics or wraps on i - 1: whenever interpret is about to
\* dispatch JumpBackward(i), i >= 1.
C8_NoUnderflow ==
    /\ pc # "panicked"
    /\ interpreter.cursor # UsizeMax
    /\ AtOp("JumpBackward") => interpreter.tokens[interpreter.cursor + 1].arg >= 1

\* a JumpBackward is about to be dispatched
C8_Witness == AtOp("JumpBackward")

TapeWellFormed ==
    /\ Len(interpreter.brain.cells) >= 1
    /\ 0 <= interpreter.brain.ptr
    /\ interpreter.brain.ptr < Len(interpreter.brain.cells)

\* C9: the tape has at least one cell and 0 <= ptr < length in every state,
\* and dispatching PointerDecrement with ptr = 0 leaves the brain as it was.
C9_TapeWellFormed ==
    /\ []TapeWellFormed
    /\ [][(AtOp("PointerDecrement") /\ interpreter.brain.ptr = 0)
            => interpreter'.brain = interpreter.brain]_vars

\* a first fragment "<" has been run on the fresh tape
C9_Witness ==
    /\ pc = "run"
    /\ interpreter.tokens = <<PointerDecrement>>
    /\ interpreter.cursor = 1
    /\ interpreter.brain = BrainNew

\* the tokens before the cursor are all PointerIncrement
OnlyMovedRight ==
    /\ interpreter.cursor <= Len(interpreter.tokens)
    /\ \A k \in 1..interpreter.cursor : interpreter.tokens[k].op = "PointerIncrement"

\* C10: the tape never gets shorter; dispatching PointerIncrement appends one
\* zero cell when ptr was on the last cell and leaves the cells alone
\* otherwise; the length is 1 + the highest ptr reached; after n
\* PointerIncrement on the fresh tape the length is n + 1.
C10_LazyGrowth ==
    /\ [][Len(interpreter'.brain.cells) >= Len(interpreter.brain.cells)]_vars
    /\ [][AtOp("PointerIncrement") =>
            interpreter'.brain.cells =
                IF interpreter.brain.ptr = Len(interpreter.brain.cells) - 1
                THEN Append(interpreter.brain.cells, 0)
                ELSE interpreter.brain.cells]_vars
    /\ [](Len(interpreter.brain.cells) = maxPtr + 1)
    /\ [](OnlyMovedRight => Len(interpreter.brain.cells) = interpreter.cursor + 1)

\* the cursor went right twice, came back, and went right again without growth
C10_Witness ==
    /\ interpreter.brain.ptr = 2
    /\ Len(interpreter.brain.cells) = 3
    /\ OpsOfTokens(interpreter.tokens) =
         <<"PointerIncrement", "PointerIncrement", "PointerDecrement", "PointerIncrement">>
    /\ interpreter.cursor = 4

\* the cell under the tape cursor
Cell(it) == it.brain.cells[it.brain.ptr + 1]

\* the characters produced so far, printed or still buffered, in order
Emitted == Concat(stdout) \o interpreter.brain.output_buffer

\* C11: dispatching Input adds to the cell under the cursor, modulo 256, the
\* code modulo 256 of the first character of the line read_byte returned,
\* adds nothing when that line has no character, and changes nothing else of
\* the brain; so after ",." with the line "A" in a fresh session cell 0 is
\* 65 and the one character produced is 65.
C11_InputAdds ==
    /\ [][AtOp("Input") =>
            LET k == IF byteLine' = <<>> THEN 0 ELSE CharCode(byteLine'[1]) % 256 IN
            interpreter'.brain =
                [interpreter.brain EXCEPT !.cells[interpreter.brain.ptr + 1] =
                    (Cell(interpreter) + k) % 256]]_vars
    /\ []((/\ InSession
           /\ OpsOfTokens(interpreter.tokens) = <<"Input", "Output">>
           /\ interpreter.cursor = 2
           /\ byteLine = <<"A">>)
          => (interpreter.brain.cells = <<65>> /\ Emitted = <<65>>))

\* ",." has been run with the line "A"
C11_Witness ==
    /\ pc = "read"
    /\ OpsOfTokens(interpreter.tokens) = <<"Input", "Output">>
    /\ byteLine = <<"A">>
    /\ interpreter.brain.cells = <<65>>
    /\ stdout = << <<65>> >>

\* C12: dispatching DataIncrement leaves (c + 1) mod 256 and DataDecrement
\* (c - 1) mod 256 in the cell under the cursor (0 after 255, 255 before 0)
\* and changes nothing else of the brain; cells stay within 0..255.
C12_WrapArithmetic ==
    /\ [][AtOp("DataIncrement") =>
            interpreter'.brain =
                [interpreter.brain EXCEPT !.cells[interpreter.brain.ptr + 1] =
                    IF Cell(interpreter) = 255 THEN 0 ELSE Cell(interpreter) + 1]]_vars
    /\ [][AtOp("DataDecrement") =>
            interpreter'.brain =
                [interpreter.brain EXCEPT !.cells[interpreter.brain.ptr + 1] =
                    IF Cell(interpreter) = 0 THEN 255 ELSE Cell(interpreter) - 1]]_vars
    /\ [](\A k \in 1..Len(interpreter.brain.cells) : interpreter.brain.cells[k] \in 0..255)

\* "-+" has been run on the fresh tape: 0 - 1 = 255, then 255 + 1 = 0
C12_Witness ==
    /\ pc = "run"
    /\ OpsOfTokens(interpreter.tokens) = <<"DataDecrement", "DataIncrement">>
    /\ interpreter.cursor = 2
    /\ interpreter.brain.cells = <<0>>

\* C13: dispatching Output appends the value of the cell under the cursor to
\* the output buffer and prints nothing; nothing is printed while the cursor
\* is before the end of the list; at the end of interpret the whole buffer
\* is printed once and cleared; the buffer is empty whenever interpret is not
\* running; so the characters produced grow by exactly the Output tokens
\* dispatched, in order.
C13_BufferedOutput ==
    /\ [][AtOp("Output") =>
            /\ interpreter'.brain =
                 [interpreter.brain EXCEPT !.output_buffer = Append(@, Cell(interpreter))]
            /\ stdout' = stdout]_vars
    /\ [][(pc = "run" /\ interpreter.cursor < Len(interpreter.tokens)) => stdout' = stdout]_vars
    /\ [][(pc = "run" /\ ~(interpreter.cursor < Len(interpreter.tokens))) =>
            /\ stdout' = IF interpreter.brain.output_buffer = <<>>
                         THEN stdout
                         ELSE Append(stdout, interpreter.brain.output_buffer)
            /\ interpreter'.brain.output_buffer = <<>>]_vars
    /\ [][Emitted' = IF AtOp("Output") THEN Append(Emitted, Cell(interpreter)) ELSE Emitted]_vars
    /\ [](pc \in {"read", "cont", "eval", "exited"} => interpreter.brain.output_buffer = <<>>)

\* two runs have each printed their buffer
C13_Witness ==
    /\ pc = "read"
    /\ Len(stdout) = 2
    /\ interpreter.brain.output_buffer = <<>>

\* scanning text with depth brackets open, the quit character is reached
\* before an unbalanced ']' ends the scan
RECURSIVE QuitMet(_, _)
QuitMet(s, depth) ==
    IF s = <<>> THEN FALSE
    ELSE IF Head(s) = QuitChar THEN TRUE
    ELSE IF Head(s) = "[" THEN QuitMet(Tail(s), depth + 1)
    ELSE IF Head(s) = "]" THEN (depth > 0 /\ QuitMet(Tail(s), depth - 1))
    ELSE QuitMet(Tail(s), depth)

\* C14: once tokenize has met the quit character the process has exited: no
\* further step is taken, and the interpreter (token list, cursor, tape) is
\* as it was when the fragment began, whatever was tokenized before the '?'
\* on the same line or on earlier lines of the fragment.
C14_QuitCommitsNothing ==
    /\ []((InSession /\ QuitMet(calls.text, 0)) => (pc = "exited" /\ interpreter = snap))
    /\ [](pc = "exited" => QuitMet(calls.text, 0))
    /\ [][pc # "exited"]_vars

\* '?' came on a continuation line, after tokens of the fragment
C14_Witness ==
    /\ pc = "exited"
    /\ calls.n >= 2
    /\ Len(parser.tokens) >= 2
    /\ Len(snap.tokens) > 0

\* text without the characters that are not instruction characters
RECURSIVE Strip(_)
Strip(s) ==
    IF s = <<>> THEN <<>>
    ELSE IF Head(s) \in InstrChars THEN <<Head(s)>> \o Strip(Tail(s))
    ELSE Strip(Tail(s))

\* C15: tokenizing texts that hold other characters than the eight
\* instruction characters (and no '?') leaves the parser (tokens with their
\* targets, match stack, cursor, prev_cursor) and the error report as
\* tokenizing the same texts with those characters removed does.
C15_IgnoresOtherChars ==
    (pc = "tok" /\ callsOk) =>
        LET stripped == tokenize(start, Strip(calls.text)) IN
        /\ parser = stripped.p
        /\ fragErr = stripped.errored

\* "[x]" was tokenized and the pair is resolved
C15_Witness ==
    /\ pc = "tok"
    /\ callsOk
    /\ calls.text = <<"[", "x", "]">>
    /\ parser.match_stack = <<>>
    /\ Len(parser.tokens) = 2

\* a fragment without an unbalanced ']' was committed, run, and the parser reset
Committed == pc = "read" /\ calls.n > 0 /\ ~fragErr

\* C16 as stated: after a balanced fragment has been committed and the
\* parser reset, prev_cursor is 0, cursor is 0, and tokens and match_stack
\* are empty.
C16_OffsetZero ==
    Committed =>
        parser = [tokens |-> <<>>, match_stack |-> <<>>, cursor |-> 0, prev_cursor |-> 0]

\* C16 (amended): after a balanced fragment has been committed and the
\* parser reset, cursor is 0 and tokens and match_stack are empty, and
\* prev_cursor is what it was before the reset plus the number of tokens the
\* fragment added to the interpreter's list; it is not set back to 0.
C16_OffsetAdvances ==
    /\ [][(pc = "run" /\ pc' = "read" /\ ~fragErr) =>
            parser' = [tokens |-> <<>>, match_stack |-> <<>>, cursor |-> 0,
                       prev_cursor |-> parser.prev_cursor
                                       + (Len(interpreter.tokens) - Len(snap.tokens))]]_vars
    /\ [](Committed =>
            /\ parser.tokens = <<>>
            /\ parser.match_stack = <<>>
            /\ parser.cursor = 0
            /\ parser.prev_cursor >= Len(interpreter.tokens) - Len(snap.tokens))

\* a second balanced fragment was committed: the offset stands at 2
C16_Witness ==
    /\ Committed
    /\ ~everErr
    /\ Len(snap.tokens) = 1
    /\ Len(interpreter.tokens) = 2
    /\ parser.prev_cursor = 2
    /\ parser.cursor = 0

\* the token interpret is about to dispatch
Current(it) == it.tokens[it.cursor + 1]

\* C17: dispatching JumpForward(t) with the current cell 0 puts the cursor on
\* t + 1, which is at most the length of the token list, and with the cell
\* non-zero on the next token; dispatching JumpBackward(t) puts the cursor on
\* t, where the matching JumpForward stands; a step takes the cursor from
\* inside a loop to behind its closer only with the current cell 0; neither
\* jump changes the brain.
C17_JumpProtocol ==
    /\ [][AtOp("JumpForward") =>
            LET t == Current(interpreter).arg IN
            /\ interpreter'.brain = interpreter.brain
            /\ interpreter'.cursor = IF is_zero(interpreter.brain)
                                     THEN t + 1 ELSE interpreter.cursor + 1
            /\ t + 1 <= Len(interpreter.tokens)]_vars
    /\ [][AtOp("JumpBackward") =>
            LET t == Current(interpreter).arg IN
            /\ interpreter'.brain = interpreter.brain
            /\ interpreter'.cursor = t
            /\ <<t, interpreter.cursor>> \in Pairs(interpreter.tokens)]_vars
    /\ [][\A pr \in Pairs(interpreter.tokens) :
            (/\ pc = "run"
             /\ interpreter.cursor \in pr[1]..pr[2]
             /\ interpreter'.cursor > pr[2])
            => is_zero(interpreter.brain)]_vars

\* C18: whenever a fragment begins (main is about to read its first line,
\* the parser's tokens and match stack are empty), the parser's prev_cursor
\* equals the length of the interpreter's token list, also after lines that
\* ended in the unbalanced-close error.
C18_OffsetIsListLength ==
    (pc = "read") =>
        /\ parser.tokens = <<>>
        /\ parser.match_stack = <<>>
        /\ parser.prev_cursor = Len(interpreter.tokens)

\* both sessions of a program typed twice are over, and no line met an unbalanced ']'
BothRun == replay.phase = 2 /\ AllTyped /\ ~replay.first.err /\ ~everErr

\* C19: a program without an unbalanced ']' typed line by line, in any cut
\* into lines, leaves the interpreter (token list, cursor, tape and tape
\* cursor) and the characters printed by its Output instructions as the same
\* program typed as one line into a fresh session with the same byte lines
\* does; each run starts at the first token of its fragment (interpret finds
\* the cursor at the end of the earlier list) and never goes back before it.
C19_IncrementalEqualsBatch ==
    /\ BothRun =>
        /\ interpreter = replay.first.interpreter
        /\ Concat(stdout) = replay.first.out
    /\ (replay.phase = 1 /\ ~everErr) =>
        /\ (pc \in {"read", "cont", "eval"}) =>
              interpreter.cursor = Len(interpreter.tokens)
        /\ (pc = "run") =>
              /\ snap.cursor = Len(snap.tokens)
              /\ interpreter.cursor >= Len(snap.tokens)

\* "+[>]" was typed in two or more fragments, the last of them added tokens
\* to a list that was not empty, and then as one line; the loop was run
C19_Witness ==
    /\ BothRun
    /\ replay.program = <<"+", "[", ">", "]">>
    /\ replay.first.split
    /\ interpreter.brain = [cells |-> <<1, 0>>, ptr |-> 1, output_buffer |-> <<>>]

====
